---- MODULE Spec2Model ----
(***************************************************************************)
(* A model of the neutron-count averaging pipeline:                        *)
(*   datahandling/import_data.py   (import_neutron_data and helpers)       *)
(*   datahandling/average_data.py  (average_neutron_data and helpers)      *)
(*   coscal/correct_data.py        (set_corr_keys)                         *)
(*                                                                         *)
(* Times are integers (seconds).  A number is a record [n, d] standing for *)
(* the quotient n/d in lowest terms; d = 0 is the floating-point           *)
(* not-a-number.  A table is a sequence of rows [t, id, cols]: t the       *)
(* timestamp, id the line of the file the row was read from, cols the      *)
(* row's columns.  A Python string whose characters matter (a duration     *)
(* such as '3600s') is a sequence of one-character strings.                *)
(***************************************************************************)
EXTENDS Integers, Sequences, FiniteSets, TLC

VARIABLES
    operator,               \* argument: the network identifier
    station_info,           \* the metadata table: sequence of [name, rigidity]
    files,                  \* the data file of each station: name -> table
    excluded_stations,      \* argument: set of station names
    rigidity_range,         \* argument: [min, max]
    start_date, stop_date,  \* arguments: the window
    original_frequency,     \* argument: duration string
    new_frequency,          \* argument: duration string
    pc,                     \* position in the code under execution
    i,                      \* loop index of average_neutron_data (1-based)
    other_keys,             \* local of average_neutron_data
    length,                 \* local of average_neutron_data: [num, den]
    first_station,          \* local of average_neutron_data
    contributing_stations,  \* local of average_neutron_data: [name, rigidity]
    station_data,           \* local of average_neutron_data: current table
    valid,                  \* local of average_neutron_data: import's flag
    all_data,               \* local of average_neutron_data: the ensembles
    err,                    \* the exception that ended the run, [exc, line]
    arg,                    \* the argument record of a function under test
    ret                     \* its result

vars == <<operator, station_info, files, excluded_stations, rigidity_range,
          start_date, stop_date, original_frequency, new_frequency, pc, i,
          other_keys, length, first_station, contributing_stations,
          station_data, valid, all_data, err, arg, ret>>

runInputs == <<operator, station_info, files, excluded_stations,
               rigidity_range, start_date, stop_date, original_frequency,
               new_frequency>>

runLocals == <<i, other_keys, length, first_station, contributing_stations,
               station_data, valid, all_data>>

(***************************************************************************)
(* Bounds of the model.                                                    *)
(***************************************************************************)
MaxStations == 2
MaxFileRows == 3
MaxEnsembleRows == 2
MaxColumns == 2
MaxSeries == 4

(***************************************************************************)
(* Numbers.                                                                *)
(***************************************************************************)
RECURSIVE Gcd(_, _)
Gcd(a, b) == IF b = 0 THEN a ELSE Gcd(b, a % b)

Abs(a) == IF a < 0 THEN -a ELSE a

Num(k) == [n |-> k, d |-> 1]

NaN == [n |-> 0, d |-> 0]

IsNaN(v) == v.d = 0

\* numerator / denominator as numpy divides: 0/0 is nan.  (x/0 for x # 0 is
\* an infinity; the quotients taken here have x = 0 whenever the divisor is.)
Quot(a, b) ==
    IF b = 0 THEN NaN
    ELSE LET g == Gcd(Abs(a), Abs(b))
             s == IF b < 0 THEN -1 ELSE 1
         IN  [n |-> s * (a \div g), d |-> s * (b \div g)]

RECURSIVE SeqSum(_)
SeqSum(s) == IF s = <<>> THEN 0 ELSE Head(s) + SeqSum(Tail(s))

NotNaN(v) == ~IsNaN(v)

\* np.nansum over a sequence of whole numbers and nans
nansum(vals) ==
    SeqSum([k \in 1..Len(SelectSeq(vals, NotNaN)) |-> SelectSeq(vals, NotNaN)[k].n])

\* np.count_nonzero(~np.isnan(...))
count_not_nan(vals) == Len(SelectSeq(vals, NotNaN))

(***************************************************************************)
(* Python strings as character sequences.                                  *)
(***************************************************************************)
Digits == <<"0", "1", "2", "3", "4", "5", "6", "7", "8", "9">>

DigitValue(c) == (CHOOSE k \in 1..10 : Digits[k] = c) - 1

IsDigit(c) == \E k \in 1..10 : Digits[k] = c

\* the code point of a character: digits are ordered and precede letters
Ord(c) == IF IsDigit(c) THEN 48 + DigitValue(c) ELSE 115

\* Python's  a > b  on str: lexicographic by code point, a proper prefix is less
RECURSIVE StrGreater(_, _)
StrGreater(a, b) ==
    IF a = <<>> THEN FALSE
    ELSE IF b = <<>> THEN TRUE
    ELSE IF Ord(Head(a)) # Ord(Head(b)) THEN Ord(Head(a)) > Ord(Head(b))
    ELSE StrGreater(Tail(a), Tail(b))

\* pd.Timedelta('<digits>s'): the number of seconds
RECURSIVE DigitsValue(_)
DigitsValue(s) ==
    IF s = <<>> THEN 0
    ELSE 10 * DigitsValue(SubSeq(s, 1, Len(s) - 1)) + DigitValue(s[Len(s)])

Timedelta(s) == DigitsValue(SubSeq(s, 1, Len(s) - 1))

(***************************************************************************)
(* The per-network configuration.  A lookup returns [exc, val]: exc is the *)
(* exception the call raises ("none" when it returns), val what it         *)
(* returns.  A dict is a function on its keys.                             *)
(***************************************************************************)
Returns(v) == [exc |-> "none", val |-> v]

Raises(e) == [exc |-> e, val |-> <<>>]

EmptyDict == [k \in {} |-> ""]

get_other_keys(op) ==
    IF op = "COSMOS-US" THEN
        Returns([meta_sep |-> "\t", name_column |-> "SiteName",
                 length_mod |-> 0, extension |-> ".txt"])
    ELSE IF op = "COSMOS-UK" THEN
        Returns([meta_sep |-> ",", name_column |-> "SITE_ID",
                 length_mod |-> 1, extension |-> ".csv"])
    ELSE Returns(EmptyDict)

get_data_keys(op) ==
    IF op = "COSMOS-US" THEN Returns(<<"MOD", "UNMO">>)
    ELSE IF op = "COSMOS-UK" THEN Returns(<<"CTS_MOD">>)
    ELSE IF op = "NMDB" THEN Returns(<<"counts">>)
    ELSE Raises("KeyError")

get_error_keys(op) ==
    IF op = "COSMOS-US" THEN Returns(<<"E_MOD", "E_UNMO">>)
    ELSE IF op = "COSMOS-UK" THEN Returns(<<"E_CTS_MOD">>)
    ELSE Raises("KeyError")

get_resampler_dict(op) ==
    IF op = "NMDB" THEN Returns([counts |-> "sum"])
    ELSE IF op = "COSMOS-US" THEN
        Returns([MOD |-> "sum", UNMO |-> "sum", PRESS |-> "mean",
                 TEM |-> "mean", RH |-> "mean", BATT |-> "mean"])
    ELSE IF op = "COSMOS-UK" THEN
        Returns([CTS_MOD |-> "sum", CTS_MOD2 |-> "sum", CTS_BARE |-> "sum",
                 PA |-> "mean", Q |-> "mean", CTS_MOD_QCFLAG |-> "sum",
                 CTS_MOD2_QCFLAG |-> "sum", CTS_BARE_QCFLAG |-> "sum",
                 PA_QCFLAG |-> "sum", Q_QCFLAG |-> "sum"])
    ELSE Raises("UnboundLocalError")   \* ret_dict is never bound

get_qc_dict ==
    [CTS_MOD |-> "CTS_MOD_QCFLAG", CTS_MOD2 |-> "CTS_MOD2_QCFLAG",
     CTS_BARE |-> "CTS_BARE_QCFLAG", PA |-> "PA_QCFLAG", Q |-> "Q_QCFLAG"]

set_keys_and_parser(op) ==
    IF op = "COSMOS-UK" THEN
        Returns([date_key |-> "DATE_TIME", separator |-> ","])
    ELSE IF op = "COSMOS-US" THEN
        Returns([date_key |-> "Date_Time", separator |-> "\\s+"])
    ELSE IF op = "NMDB" THEN
        Returns([date_key |-> "DateTime", separator |-> ";"])
    ELSE IF op = "COSMOS-Av" THEN
        Returns([date_key |-> "Time", separator |-> ","])
    ELSE Raises("KeyError")

set_corr_keys(op) ==
    IF op = "COSMOS-US" THEN Returns([p_corr |-> "PRESS", h_corr |-> "None"])
    ELSE IF op = "COSMOS-UK" THEN Returns([p_corr |-> "PA", h_corr |-> "Q"])
    ELSE Raises("KeyError")

(***************************************************************************)
(* The importer.                                                           *)
(***************************************************************************)
\* data.sort_values(by=[date_key]): ascending by timestamp; rows with equal
\* timestamps keep their order (tables this small are insertion-sorted)
RECURSIVE Insert(_, _)
Insert(row, sorted) ==
    IF sorted = <<>> THEN <<row>>
    ELSE IF row.t < Head(sorted).t THEN <<row>> \o sorted
    ELSE <<Head(sorted)>> \o Insert(row, Tail(sorted))

RECURSIVE sort_values(_)
sort_values(table) ==
    IF table = <<>> THEN <<>>
    ELSE Insert(table[Len(table)], sort_values(SubSeq(table, 1, Len(table) - 1)))

\* the check of the start alone
date_valid_StartOnly(data, start, stop) == data[1].t <= start

date_valid(data, start, stop) ==
    data[1].t <= start /\ data[Len(data)].t >= stop

\* the slice taken as half-open
InSlice_HalfOpen(row, start, stop) == start <= row.t /\ row.t < stop

\* data[start_date:stop_date] on a sorted DatetimeIndex: label slicing, which
\* keeps both end points
InSlice(row, start, stop) == start <= row.t /\ row.t <= stop

LabelSlice(data, start, stop) ==
    LET Keep(row) == InSlice(row, start, stop) IN SelectSeq(data, Keep)

slice_data_for_dates(data, start, stop) ==
    IF date_valid(data, start, stop) THEN
        LET sliced_data == LabelSlice(data, start, stop) IN
        IF sliced_data = <<>> THEN [data |-> data, validity |-> FALSE]
        ELSE [data |-> sliced_data, validity |-> TRUE]
    ELSE [data |-> data, validity |-> FALSE]

\* window is <<start, stop>>, or <<>> when start is None
import_neutron_data(table, op, window) ==
    IF set_keys_and_parser(op).exc # "none" THEN
        [exc |-> set_keys_and_parser(op).exc, data |-> <<>>, validity |-> FALSE]
    ELSE LET data == sort_values(table) IN
        IF data = <<>> THEN [exc |-> "none", data |-> data, validity |-> FALSE]
        ELSE IF window # <<>> THEN
            [exc |-> "none",
             data |-> slice_data_for_dates(data, window[1], window[2]).data,
             validity |-> slice_data_for_dates(data, window[1], window[2]).validity]
        ELSE [exc |-> "none", data |-> data, validity |-> TRUE]

(***************************************************************************)
(* The resampler.                                                          *)
(***************************************************************************)
SetMax(S) == CHOOSE x \in S : \A y \in S : y <= x

SetMin(S) == CHOOSE x \in S : \A y \in S : x <= y

\* the left edge of the bin of width f that holds time t; bins are counted
\* from midnight, which is time 0
BinOf(t, f) == (t \div f) * f

\* the labels of data.resample(f): one per bin from the first row's bin to the
\* last row's, whether or not a row falls in it
BinLabels(data, f) ==
    IF data = <<>> THEN <<>>
    ELSE [k \in 1..((BinOf(data[Len(data)].t, f) - BinOf(data[1].t, f)) \div f) + 1
             |-> BinOf(data[1].t, f) + (k - 1) * f]

\* the index has the frequency f itself (pandas infers one from three or more
\* evenly spaced stamps)
HasFrequency(data, f) ==
    Len(data) >= 3 /\ \A k \in 1..(Len(data) - 1) : data[k + 1].t - data[k].t = f

\* reindex(method='nearest') on an increasing index: the closest stamp, the
\* later one when two are equally close
NearestRow(data, label) ==
    LET le == {k \in 1..Len(data) : data[k].t <= label}
        ge == {k \in 1..Len(data) : data[k].t >= label}
    IN  IF ge = {} THEN SetMax(le)
        ELSE IF le = {} THEN SetMin(ge)
        ELSE IF label - data[SetMax(le)].t < data[SetMin(ge)].t - label
             THEN SetMax(le)
             ELSE SetMin(ge)

\* data.resample(f).nearest()
ResampleNearest(data, f) ==
    LET labels == BinLabels(data, f) IN
    IF HasFrequency(data, f)
    THEN [k \in 1..Len(data) |-> [data[k] EXCEPT !.t = labels[k]]]
    ELSE [k \in 1..Len(labels) |->
             [data[NearestRow(data, labels[k])] EXCEPT !.t = labels[k]]]

\* the values of column c in the rows of the bin labelled by label
BinValues(data, c, label, f) ==
    LET InBin(row) == BinOf(row.t, f) = label
        rows == SelectSeq(data, InBin)
    IN  [k \in 1..Len(rows) |-> rows[k].cols[c]]

Reduce(how, vals) ==
    IF how = "sum" THEN Num(nansum(vals))
    ELSE Quot(nansum(vals), count_not_nan(vals))

\* data.resample(f).agg(resampler_dict): the dict's columns, each reduced
\* per bin; the aggregated row stands for no single line of the file (id 0)
ResampleAgg(data, f, resampler_dict) ==
    LET labels == BinLabels(data, f) IN
    [k \in 1..Len(labels) |->
        [t |-> labels[k], id |-> 0,
         cols |-> [c \in DOMAIN resampler_dict |->
                      Reduce(resampler_dict[c], BinValues(data, c, labels[k], f))]]]

is_multiple(large_td, small_td) == large_td % small_td = 0

\* agg raises when the dict names a column the table lacks
HasColumns(data, cs) == \A k \in 1..Len(data) : cs \subseteq DOMAIN data[k].cols

\* returns [exc, branch, val]; the frequencies are strings
resample_data(data, op, orig_frequency, new_freq) ==
    LET original_frequency_td == Timedelta(orig_frequency)
        new_frequency_td == Timedelta(new_freq)
    IN  IF original_frequency_td = new_frequency_td THEN
            [exc |-> "none", branch |-> "nearest",
             val |-> ResampleNearest(data, new_frequency_td)]
        ELSE IF StrGreater(new_freq, orig_frequency) THEN
            IF is_multiple(new_frequency_td, original_frequency_td) THEN
                IF get_resampler_dict(op).exc # "none" THEN
                    [exc |-> get_resampler_dict(op).exc, branch |-> "agg",
                     val |-> <<>>]
                ELSE IF ~HasColumns(data, DOMAIN get_resampler_dict(op).val) THEN
                    [exc |-> "KeyError", branch |-> "agg", val |-> <<>>]
                ELSE
                    [exc |-> "none", branch |-> "agg",
                     val |-> ResampleAgg(data, new_frequency_td,
                                         get_resampler_dict(op).val)]
            ELSE [exc |-> "ValueError", branch |-> "not_multiple", val |-> <<>>]
        ELSE [exc |-> "ValueError", branch |-> "not_larger", val |-> <<>>]

(***************************************************************************)
(* The quality filter's flag masking.                                      *)
(***************************************************************************)
\* data[key] = data.mask(data[qc_dict[key]] > 0)[key]  for every key
qc_check_data(data) ==
    [k \in 1..Len(data) |->
        [data[k] EXCEPT !.cols =
            [c \in DOMAIN data[k].cols |->
                IF c \in DOMAIN get_qc_dict
                   /\ ~IsNaN(data[k].cols[get_qc_dict[c]])
                   /\ data[k].cols[get_qc_dict[c]].n > 0
                THEN NaN
                ELSE data[k].cols[c]]]]

(***************************************************************************)
(* The runs of average_neutron_data that are explored.                     *)
(***************************************************************************)
Operators == {"COSMOS-US", "COSMOS-UK", "NMDB", "COSMOS-Av", "COSMOS-EU"}

StationNames == <<"A", "B", "C", "D">>

USRow(t, id, c) ==
    [t |-> t, id |-> id,
     cols |-> [MOD |-> Num(c), UNMO |-> Num(c + 1), PRESS |-> Num(1000),
               TEM |-> Num(10), RH |-> Num(50), BATT |-> Num(12)]]

UKRow(t, id, c, flag) ==
    [t |-> t, id |-> id,
     cols |-> [CTS_MOD |-> Num(c), CTS_MOD2 |-> Num(c + 1),
               CTS_BARE |-> Num(c + 2), PA |-> Num(1000), Q |-> Num(5),
               CTS_MOD_QCFLAG |-> Num(flag), CTS_MOD2_QCFLAG |-> Num(0),
               CTS_BARE_QCFLAG |-> Num(0), PA_QCFLAG |-> Num(0),
               Q_QCFLAG |-> Num(0)]]

NMDBRow(t, id, c) == [t |-> t, id |-> id, cols |-> [counts |-> Num(c)]]

RowOf(op, t, id, c, flag) ==
    IF op = "COSMOS-US" THEN USRow(t, id, c)
    ELSE IF op = "NMDB" THEN NMDBRow(t, id, c)
    ELSE UKRow(t, id, c, flag)

\* The window of every explored run is [0, 7200] seconds.  The files:
\*   "hourly"   stamps on the hour, over the whole window;
\*   "offset"   stamps on the half hour, from before the window to after it;
\*   "short"    stamps that end before the window does;
\*   "empty"    no rows.
FileKinds == {"hourly", "offset", "short", "empty"}

FileOf(kind, op) ==
    IF kind = "hourly" THEN
        <<RowOf(op, 0, 1, 100, 0), RowOf(op, 3600, 2, 110, 1),
          RowOf(op, 7200, 3, 120, 0)>>
    ELSE IF kind = "offset" THEN
        <<RowOf(op, -1800, 1, 90, 0), RowOf(op, 1800, 2, 100, 0),
          RowOf(op, 5400, 3, 110, 0), RowOf(op, 9000, 4, 120, 0)>>
    ELSE IF kind = "short" THEN
        <<RowOf(op, 0, 1, 100, 0), RowOf(op, 3600, 2, 110, 0)>>
    ELSE <<>>

RunWindow == [start |-> 0, stop |-> 7200]

RunRigidityRange == [min |-> 2, max |-> 5]

\* a station of the metadata table: its cut-off rigidity and its data file
StationProfiles ==
    {[rigidity |-> r, file |-> "hourly"] : r \in {1, 2, 5, 6}}
    \cup {[rigidity |-> 3, file |-> k] : k \in {"offset", "short", "empty"}}

RunFrequencies ==
    {<<"3", "6", "0", "0", "s">>, <<"7", "2", "0", "0", "s">>,
     <<"1", "0", "8", "0", "0", "s">>}

NoError == [exc |-> "none", line |-> 0]

Unbound == <<>>

InitRun ==
    /\ operator \in Operators
    /\ \E n \in 0..MaxStations : \E prof \in [1..n -> StationProfiles] :
          /\ station_info =
                [k \in 1..n |-> [name |-> StationNames[k],
                                 rigidity |-> prof[k].rigidity]]
          /\ files =
                [nm \in {StationNames[k] : k \in 1..n} |->
                    FileOf(prof[CHOOSE k \in 1..n : StationNames[k] = nm].file,
                           operator)]
          /\ excluded_stations \in SUBSET {StationNames[k] : k \in 1..n}
    /\ rigidity_range = RunRigidityRange
    /\ start_date = RunWindow.start
    /\ stop_date = RunWindow.stop
    /\ original_frequency = <<"3", "6", "0", "0", "s">>
    /\ new_frequency \in RunFrequencies
    /\ pc = "Init"
    /\ i = 0
    /\ other_keys = Unbound
    /\ length = Unbound
    /\ first_station = TRUE
    /\ contributing_stations = [name |-> <<>>, rigidity |-> <<>>]
    /\ station_data = Unbound
    /\ valid = FALSE
    /\ all_data = Unbound
    /\ err = NoError
    /\ arg = <<>>
    /\ ret = <<>>

(***************************************************************************)
(* The ensemble and its statistics.  An array is [ndim, a]: ndim = 0 a     *)
(* scalar, ndim = 1 a sequence of numbers, ndim = 2 a sequence of rows.    *)
(* The values summed are whole numbers or nan.                             *)
(***************************************************************************)
Scalar(x) == [ndim |-> 0, a |-> x]

Array1(s) == [ndim |-> 1, a |-> s]

Array2(rows) == [ndim |-> 2, a |-> rows]

\* data[key].values
ColumnValues(data, key) == Array1([k \in 1..Len(data) |-> data[k].cols[key]])

\* lines 342-357: the first station's columns, each a one-dimensional array
make_data_dict(data, keys) ==
    [key \in {keys[k] : k \in 1..Len(keys)} |-> ColumnValues(data, key)]

\* np.vstack((stack, row)) with row one-dimensional; [exc, val]
vstack(stack, row) ==
    IF stack.ndim = 1 THEN
        IF Len(stack.a) = Len(row.a)
        THEN Returns(Array2(<<stack.a, row.a>>))
        ELSE Raises("ValueError")
    ELSE
        IF Len(stack.a[1]) = Len(row.a)
        THEN Returns(Array2(Append(stack.a, row.a)))
        ELSE Raises("ValueError")

\* column j of a two-dimensional array
Column(arr, j) == [r \in 1..Len(arr.a) |-> arr.a[r][j]]

\* np.nansum(arr, axis=0): of a one-dimensional array, the sum of all its
\* entries; of a two-dimensional one, the sum of each column
nansum_axis0(arr) ==
    IF arr.ndim = 1 THEN Scalar(nansum(arr.a))
    ELSE Array1([j \in 1..Len(arr.a[1]) |-> nansum(Column(arr, j))])

\* np.count_nonzero(~np.isnan(arr), axis=0)
count_axis0(arr) ==
    IF arr.ndim = 1 THEN Scalar(count_not_nan(arr.a))
    ELSE Array1([j \in 1..Len(arr.a[1]) |-> count_not_nan(Column(arr, j))])

\* np.sqrt(s)/s * 100, an irrational number, is carried as its square
\* 10000/s; it is nan for s = 0
poisson_pct(summed) == Quot(10000 * summed, summed * summed)

\* lines 376-393
average_each_key(data_dict, keys) ==
    LET keyset == {keys[k] : k \in 1..Len(keys)}
        summed(key) == nansum_axis0(data_dict[key])
        num_not_nan(key) == count_axis0(data_dict[key])
        error(key) ==
            IF summed(key).ndim = 0 THEN Scalar(poisson_pct(summed(key).a))
            ELSE Array1([j \in 1..Len(summed(key).a) |->
                            poisson_pct(summed(key).a[j])])
        mean(key) ==
            IF summed(key).ndim = 0
            THEN Scalar(Quot(summed(key).a, num_not_nan(key).a))
            ELSE Array1([j \in 1..Len(summed(key).a) |->
                            Quot(summed(key).a[j], num_not_nan(key).a[j])])
    IN  [name \in keyset \cup {"E_" \o key : key \in keyset} |->
            IF name \in keyset THEN mean(name)
            ELSE LET key == CHOOSE kk \in keyset : name = "E_" \o kk
                 IN  error(key)]

\* lines 396-407, as far as its lookups go: the columns it would return, or
\* the KeyError of data_dict[key + '_std']
dict_to_rel_change(data_dict, keys) ==
    IF \E k \in 1..Len(keys) :
          keys[k] \notin DOMAIN data_dict
          \/ (keys[k] \o "_std") \notin DOMAIN data_dict
    THEN Raises("KeyError")
    ELSE Returns({keys[k] : k \in 1..Len(keys)}
                 \cup {keys[k] \o "_std" : k \in 1..Len(keys)})

(***************************************************************************)
(* average_neutron_data, statement by statement.  pc names the statement   *)
(* about to run; the folder and the metadata file of the run exist.        *)
(***************************************************************************)
names == [k \in 1..Len(station_info) |-> station_info[k].name]

rigidity_list == [k \in 1..Len(station_info) |-> station_info[k].rigidity]

Raise(exc, line) ==
    /\ pc' = "Error"
    /\ err' = [exc |-> exc, line |-> line]

\* the statement  continue , and the end of the loop body
Continue ==
    /\ pc' = "for"
    /\ i' = i + 1
    /\ err' = err

\* lines 25-44: the keys of the network, the metadata table, the expected
\* length.  The metadata is read with other_keys['meta_sep'], which a network
\* that get_other_keys does not know does not have.
Setup ==
    /\ pc = "Init"
    /\ IF "meta_sep" \notin DOMAIN get_other_keys(operator).val THEN
           /\ Raise("KeyError", 33)
           /\ UNCHANGED <<i, length>>
       ELSE IF get_data_keys(operator).exc # "none" THEN
           /\ Raise(get_data_keys(operator).exc, 38)
           /\ UNCHANGED <<i, length>>
       ELSE IF get_error_keys(operator).exc # "none" THEN
           /\ Raise(get_error_keys(operator).exc, 39)
           /\ UNCHANGED <<i, length>>
       ELSE
           /\ length' =
                 [num |-> (stop_date - start_date)
                          + get_other_keys(operator).val.length_mod
                            * Timedelta(new_frequency),
                  den |-> Timedelta(new_frequency)]
           /\ i' = 1
           /\ pc' = "for"
           /\ err' = err
    /\ other_keys' = get_other_keys(operator).val
    /\ UNCHANGED <<runInputs, first_station, contributing_stations,
                   station_data, valid, all_data, arg, ret>>

\* line 45: the next station, or the end of the loop
ForStation ==
    /\ pc = "for"
    /\ pc' = IF i <= Len(names) THEN "excluded" ELSE "Combine"
    /\ UNCHANGED <<runInputs, runLocals, err, arg, ret>>

\* lines 47-48
CheckExcluded ==
    /\ pc = "excluded"
    /\ IF names[i] \in excluded_stations
       THEN Continue
       ELSE pc' = "rigidity" /\ UNCHANGED <<i, err>>
    /\ UNCHANGED <<runInputs, other_keys, length, first_station,
                   contributing_stations, station_data, valid, all_data,
                   arg, ret>>

\* the range taken as open at both ends
InRigidityRange_Strict(rigidity, range) ==
    rigidity > range.min /\ rigidity < range.max

InRigidityRange(rigidity, range) ==
    rigidity >= range.min /\ rigidity <= range.max

\* lines 50-54
CheckRigidity ==
    /\ pc = "rigidity"
    /\ IF ~InRigidityRange(rigidity_list[i], rigidity_range)
       THEN Continue
       ELSE pc' = "import" /\ UNCHANGED <<i, err>>
    /\ UNCHANGED <<runInputs, other_keys, length, first_station,
                   contributing_stations, station_data, valid, all_data,
                   arg, ret>>

\* line 55; the file read is names[i] + other_keys['extension']
Import ==
    /\ pc = "import"
    /\ LET r == import_neutron_data(files[names[i]], operator,
                                    <<start_date, stop_date>>)
       IN  IF r.exc # "none" THEN
               /\ Raise(r.exc, 55)
               /\ UNCHANGED <<station_data, valid>>
           ELSE
               /\ station_data' = r.data
               /\ valid' = r.validity
               /\ pc' = "valid"
               /\ err' = err
    /\ UNCHANGED <<runInputs, i, other_keys, length, first_station,
                   contributing_stations, all_data, arg, ret>>

\* an invalid or empty import taken as an error
CheckValid_Raises ==
    /\ pc = "valid"
    /\ IF valid /\ station_data # <<>>
       THEN pc' = "resample" /\ UNCHANGED <<i, err>>
       ELSE Raise("ValueError", 58) /\ UNCHANGED i
    /\ UNCHANGED <<runInputs, other_keys, length, first_station,
                   contributing_stations, station_data, valid, all_data,
                   arg, ret>>

\* line 58: an invalid or empty import ends the loop body
CheckValid ==
    /\ pc = "valid"
    /\ IF valid /\ station_data # <<>>
       THEN pc' = "resample" /\ UNCHANGED <<i, err>>
       ELSE Continue
    /\ UNCHANGED <<runInputs, other_keys, length, first_station,
                   contributing_stations, station_data, valid, all_data,
                   arg, ret>>

\* line 60
Resample ==
    /\ pc = "resample"
    /\ LET r == resample_data(station_data, operator, original_frequency,
                              new_frequency)
       IN  IF r.exc # "none" THEN
               /\ Raise(r.exc, 60)
               /\ UNCHANGED station_data
           ELSE
               /\ station_data' = r.val
               /\ pc' = "length"
               /\ err' = err
    /\ UNCHANGED <<runInputs, i, other_keys, length, first_station,
                   contributing_stations, valid, all_data, arg, ret>>

\* only a series that is too long taken as differing
LengthDiffers_OnlyLonger(data, expected) ==
    Len(data) * expected.den > expected.num

\* len(station_data.index) != length, length being a quotient
LengthDiffers(data, expected) == Len(data) * expected.den # expected.num

\* lines 61-62
CheckLength ==
    /\ pc = "length"
    /\ IF LengthDiffers(station_data, length)
       THEN Continue
       ELSE pc' = "qc" /\ UNCHANGED <<i, err>>
    /\ UNCHANGED <<runInputs, other_keys, length, first_station,
                   contributing_stations, station_data, valid, all_data,
                   arg, ret>>

\* lines 64-65
QualityCheck ==
    /\ pc = "qc"
    /\ station_data' = IF operator = "COSMOS-UK"
                       THEN qc_check_data(station_data)
                       ELSE station_data
    /\ pc' = "correct"
    /\ UNCHANGED <<runInputs, i, other_keys, length, first_station,
                   contributing_stations, valid, all_data, err, arg, ret>>

\* line 67: the call is written coscal.apply_corrections, and the module
\* binds the name apply_corrections only (line 6), never coscal: evaluating
\* it raises NameError.  Lines 69-83 (outlier removal, the log, the ensemble)
\* are therefore never run.
Correct ==
    /\ pc = "correct"
    /\ Raise("NameError", 67)
    /\ UNCHANGED <<runInputs, runLocals, arg, ret>>

\* line 85: all_data is bound by the first contributing station (line 77)
\* and there is none
Combine ==
    /\ pc = "Combine"
    /\ IF first_station
       THEN Raise("UnboundLocalError", 85)
       ELSE Raise(dict_to_rel_change(
                      average_each_key(all_data, get_data_keys(operator).val),
                      get_data_keys(operator).val).exc, 406)
    /\ UNCHANGED <<runInputs, runLocals, arg, ret>>

Next ==
    \/ Setup
    \/ ForStation
    \/ CheckExcluded
    \/ CheckRigidity
    \/ Import
    \/ CheckValid
    \/ Resample
    \/ CheckLength
    \/ QualityCheck
    \/ Correct
    \/ Combine

Spec == InitRun /\ [][Next]_vars

(***************************************************************************)
(* The functions taken alone: each of the specifications below calls one   *)
(* of them on every argument of a bounded set.  The variables of the run   *)
(* that a call does not use stay as IdleInputs and IdleLocals leave them.  *)
(***************************************************************************)
IdleInputs ==
    /\ station_info = <<>>
    /\ files = <<>>
    /\ excluded_stations = {}
    /\ rigidity_range = RunRigidityRange
    /\ start_date = RunWindow.start
    /\ stop_date = RunWindow.stop
    /\ original_frequency = <<"3", "6", "0", "0", "s">>
    /\ new_frequency = <<"3", "6", "0", "0", "s">>

IdleLocals ==
    /\ i = 0
    /\ other_keys = Unbound
    /\ length = Unbound
    /\ contributing_stations = [name |-> <<>>, rigidity |-> <<>>]
    /\ station_data = Unbound
    /\ valid = FALSE
    /\ err = NoError

(***************************************************************************)
(* import_neutron_data.                                                    *)
(***************************************************************************)
ImportStamps == {0, 1, 2, 3}

\* a file of the given stamps, in the order of its lines
StampedTable(stamps) ==
    [k \in 1..Len(stamps) |-> [t |-> stamps[k], id |-> k, cols |-> EmptyDict]]

ImportTables ==
    {StampedTable(stamps) :
        stamps \in UNION {[1..n -> ImportStamps] : n \in 0..MaxFileRows}}

ImportWindows == {<<>>} \cup {<<a, b>> : a \in {1, 2}, b \in {2, 3}}

InitImport ==
    /\ IdleInputs
    /\ IdleLocals
    /\ operator \in Operators
    /\ first_station = TRUE
    /\ all_data = Unbound
    /\ pc = "call"
    /\ arg \in [table : ImportTables, window : ImportWindows]
    /\ ret = <<>>

CallImport ==
    /\ pc = "call"
    /\ ret' = import_neutron_data(arg.table, operator, arg.window)
    /\ pc' = IF import_neutron_data(arg.table, operator, arg.window).exc = "none"
             THEN "returned" ELSE "raised"
    /\ UNCHANGED <<runInputs, runLocals, err, arg>>

SpecImport == InitImport /\ [][CallImport]_vars

(***************************************************************************)
(* resample_data.                                                          *)
(***************************************************************************)
FrequencyStrings ==
    {<<"9", "0", "0", "s">>, <<"1", "8", "0", "0", "s">>,
     <<"3", "6", "0", "0", "s">>, <<"7", "2", "0", "0", "s">>,
     <<"1", "0", "8", "0", "0", "s">>}

InitResample ==
    /\ IdleInputs
    /\ IdleLocals
    /\ operator \in Operators
    /\ first_station = TRUE
    /\ all_data = Unbound
    /\ pc = "call"
    /\ \E kind \in {"hourly", "offset", "short"} :
       \E o \in FrequencyStrings, n \in FrequencyStrings :
          arg = [data |-> FileOf(kind, operator), original_frequency |-> o,
                 new_frequency |-> n]
    /\ ret = <<>>

CallResample ==
    /\ pc = "call"
    /\ ret' = resample_data(arg.data, operator, arg.original_frequency,
                            arg.new_frequency)
    /\ pc' = IF resample_data(arg.data, operator, arg.original_frequency,
                              arg.new_frequency).exc = "none"
             THEN "returned" ELSE "raised"
    /\ UNCHANGED <<runInputs, runLocals, err, arg>>

SpecResample == InitResample /\ [][CallResample]_vars

(***************************************************************************)
(* Lines 76-86 on the series of stations that reached them: the ensemble   *)
(* is built station by station, then averaged and normalised.              *)
(***************************************************************************)
EnsembleValues == {NaN, Num(10), Num(30)}

\* the series of one station: n samples of every data key of the network
SeriesOf(op, vals) ==
    [k \in 1..Len(vals) |->
        [t |-> (k - 1) * 3600, id |-> k,
         cols |-> [key \in {get_data_keys(op).val[x] :
                              x \in 1..Len(get_data_keys(op).val)} |-> vals[k]]]]

InitCombine ==
    /\ IdleInputs
    /\ IdleLocals
    /\ operator \in {"COSMOS-US", "COSMOS-UK"}
    /\ first_station = TRUE
    /\ all_data = Unbound
    /\ pc = "join"
    /\ \E k \in 1..MaxEnsembleRows, n \in 1..MaxColumns :
          arg \in [1..k -> [1..n -> EnsembleValues]]
    /\ ret = <<>>

\* lines 76-83 for the next station of arg
Join ==
    /\ pc = "join"
    /\ i < Len(arg)
    /\ LET data == SeriesOf(operator, arg[i + 1])
           keys == get_data_keys(operator).val
       IN  IF first_station
           THEN all_data' = make_data_dict(data, keys)
           ELSE all_data' =
                   [key \in DOMAIN all_data |->
                       vstack(all_data[key], ColumnValues(data, key)).val]
    /\ first_station' = FALSE
    /\ i' = i + 1
    /\ UNCHANGED <<runInputs, other_keys, length, contributing_stations,
                   station_data, valid, pc, err, arg, ret>>

\* line 85
Average ==
    /\ pc = "join"
    /\ i = Len(arg)
    /\ ret' = average_each_key(all_data, get_data_keys(operator).val)
    /\ pc' = "averaged"
    /\ UNCHANGED <<runInputs, runLocals, err, arg>>

\* line 86
RelChange ==
    /\ pc = "averaged"
    /\ LET r == dict_to_rel_change(ret, get_data_keys(operator).val)
       IN  IF r.exc # "none"
           THEN Raise(r.exc, 406) /\ ret' = ret
           ELSE pc' = "normalised" /\ ret' = r.val /\ err' = err
    /\ UNCHANGED <<runInputs, runLocals, arg>>

NextCombine == Join \/ Average \/ RelChange

SpecCombine == InitCombine /\ [][NextCombine]_vars

(***************************************************************************)
(* Properties of the run (specification Spec).                             *)
(***************************************************************************)
KnownNetwork == operator \in {"COSMOS-US", "COSMOS-UK"}

Stations == 1..Len(station_info)

LoopStatements == {"excluded", "rigidity", "import", "valid", "resample",
                   "length", "qc", "correct"}

ExcludedByName(k) == station_info[k].name \in excluded_stations

OutOfRange(k) ==
    \/ station_info[k].rigidity < rigidity_range.min
    \/ station_info[k].rigidity > rigidity_range.max

Imported(k) ==
    import_neutron_data(files[station_info[k].name], operator,
                        <<start_date, stop_date>>)

ImportOk(k) ==
    Imported(k).exc = "none" /\ Imported(k).validity /\ Imported(k).data # <<>>

Resampled(k) ==
    resample_data(Imported(k).data, operator, original_frequency, new_frequency)

\* (stop - start) / target_cadence + length_modifier, cross-multiplied
ExpectedLength(n) ==
    n * Timedelta(new_frequency) =
        (stop_date - start_date)
        + (IF operator = "COSMOS-UK" THEN 1 ELSE 0) * Timedelta(new_frequency)

LengthMismatch(k) ==
    /\ ~ExcludedByName(k) /\ ~OutOfRange(k) /\ ImportOk(k)
    /\ Resampled(k).exc = "none"
    /\ ~ExpectedLength(Len(Resampled(k).val))

PassesAllFilters(k) ==
    /\ ~ExcludedByName(k) /\ ~OutOfRange(k) /\ ImportOk(k)
    /\ Resampled(k).exc = "none"
    /\ ExpectedLength(Len(Resampled(k).val))

\* the loop is over with station k
DoneWith(k) == pc # "Init" /\ (k < i \/ (k = i /\ pc = "Error"))

EnsembleRows(key) ==
    IF all_data = Unbound THEN <<>>
    ELSE IF all_data[key].ndim = 1 THEN <<all_data[key].a>>
    ELSE all_data[key].a

EnsembleKeys == IF all_data = Unbound THEN {} ELSE DOMAIN all_data

Logged(k) ==
    \E x \in 1..Len(contributing_stations.name) :
        contributing_stations.name[x] = station_info[k].name

\* C1: a run on a known network in which some station passes all filters
\* does not raise (and so goes on through Combine to Done).
C1_RunWithContributorDoesNotRaise ==
    (KnownNetwork /\ \E k \in Stations : PassesAllFilters(k)) => pc # "Error"

\* the statement about to run is one of the four skips
SkipsNow ==
    /\ pc \in LoopStatements
    /\ \/ pc = "excluded" /\ ExcludedByName(i)
       \/ pc = "rigidity" /\ OutOfRange(i)
       \/ pc = "valid" /\ ~(valid /\ station_data # <<>>)
       \/ pc = "length" /\ ~ExpectedLength(Len(station_data))

C3_Inv ==
    \A k \in Stations :
        (ExcludedByName(k) \/ OutOfRange(k)) =>
            /\ ~Logged(k)
            /\ ~(i = k /\ pc \in (LoopStatements \ {"excluded", "rigidity"}))
            /\ ~(i = k /\ pc = "Error")
            /\ \A key \in EnsembleKeys :
                  Len(EnsembleRows(key)) = Len(contributing_stations.name)

\* C3: a station excluded by name or with a rigidity below min or above max
\* is never imported, logged or joined, whatever its file; a station whose
\* rigidity equals min or max passes the rigidity test.
C3_ExcludedAndOutOfRangeNeverContribute ==
    /\ []C3_Inv
    /\ [][(pc = "rigidity"
           /\ station_info[i].rigidity \in {rigidity_range.min, rigidity_range.max})
          => pc' = "import"]_vars

C3_BoundaryImportedAfterOutOfRange ==
    /\ pc = "import"
    /\ i = 2
    /\ station_info[2].rigidity = rigidity_range.max
    /\ ~ExcludedByName(1)
    /\ station_info[1].rigidity > rigidity_range.max
    /\ ImportOk(1)

\* the stations the loop is over with that passed all filters, in table order
RECURSIVE PassedUpTo(_)
PassedUpTo(k) ==
    IF k = 0 THEN <<>>
    ELSE IF DoneWith(k) /\ PassesAllFilters(k)
         THEN Append(PassedUpTo(k - 1), k)
         ELSE PassedUpTo(k - 1)

\* C4: the log is parallel-indexed, in table order, and holds exactly the
\* stations that passed all filters, one ensemble row each.
C4_LogHoldsExactlyThePassingStations ==
    LET passed == PassedUpTo(Len(station_info)) IN
    /\ Len(contributing_stations.name) = Len(contributing_stations.rigidity)
    /\ contributing_stations.name =
          [x \in 1..Len(passed) |-> station_info[passed[x]].name]
    /\ contributing_stations.rigidity =
          [x \in 1..Len(passed) |-> station_info[passed[x]].rigidity]
    /\ \A key \in EnsembleKeys :
          Len(EnsembleRows(key)) = Len(contributing_stations.name)

\* C5: a network outside the known set fails every stage with a
\* configuration error (KeyError) and aborts the run before any import; a
\* network one stage accepts is accepted by every stage.
StageResults(op) ==
    <<get_other_keys(op).exc, get_data_keys(op).exc, get_error_keys(op).exc,
      set_keys_and_parser(op).exc, set_corr_keys(op).exc,
      get_resampler_dict(op).exc>>

C5_UnknownNetworkFailsEveryStage ==
    /\ ~KnownNetwork =>
          \A x \in 1..6 : StageResults(operator)[x] = "KeyError"
    /\ (\E x \in 1..6 : StageResults(operator)[x] = "none") =>
          \A x \in 1..6 : StageResults(operator)[x] = "none"
    /\ (~KnownNetwork /\ pc # "Init") =>
          (pc = "Error" /\ err.exc = "KeyError" /\ station_data = Unbound)

\* only series of the expected length are past the length check, in the log
\* or in the ensemble
C7_Inv ==
    /\ (pc \in {"qc", "correct"} \/ (pc = "Error" /\ err.line = 67))
          => ExpectedLength(Len(station_data))
    /\ \A k \in Stations : LengthMismatch(k) => ~Logged(k)
    /\ \A key \in EnsembleKeys : \A r \in 1..Len(EnsembleRows(key)) :
          ExpectedLength(Len(EnsembleRows(key)[r]))

\* C7: a station whose resampled length differs from the expected one is
\* skipped with its series left as it is, so that only series of the expected
\* length go past the length check, into the log and into the ensemble.
C7_OnlyExpectedLengthPasses ==
    /\ []C7_Inv
    /\ [][(pc = "length" /\ ~ExpectedLength(Len(station_data)))
          => (pc' = "for" /\ i' = i + 1 /\ station_data' = station_data
              /\ all_data' = all_data
              /\ contributing_stations' = contributing_stations)]_vars

C7_MismatchSkippedThenMatchPasses ==
    /\ pc = "qc"
    /\ i = 2
    /\ LengthMismatch(1)
    /\ PassesAllFilters(2)

(***************************************************************************)
(* Properties of resample_data (specification SpecResample).               *)
(***************************************************************************)
\* C6: the branch follows the durations: equal, nearest-point snapping;
\* target a multiple n >= 2 of the original, aggregation; otherwise a
\* configuration error.
C6_BranchFollowsDurations ==
    pc \in {"returned", "raised"} =>
        LET o == Timedelta(arg.original_frequency)
            n == Timedelta(arg.new_frequency)
        IN  /\ o = n => (ret.branch = "nearest" /\ ret.exc = "none")
            /\ (n > o /\ n % o = 0) => ret.branch = "agg"
            /\ (n < o \/ n % o # 0) => ret.exc = "ValueError"

(***************************************************************************)
(* Properties of the ensemble statistics (specification SpecCombine).      *)
(***************************************************************************)
\* the values of the stations of arg at sample j that are not missing
PresentAt(j) ==
    LET col == [r \in 1..Len(arg) |-> arg[r][j]] IN SelectSeq(col, NotNaN)

SumAt(j) == SeqSum([x \in 1..Len(PresentAt(j)) |-> PresentAt(j)[x].n])

\* v is the quotient a/b (nan for 0/0)
IsQuotient(v, a, b) ==
    IF b = 0 THEN IsNaN(v) ELSE (~IsNaN(v) /\ v.n * b = a * v.d)

\* C8: for k >= 1 station rows of n samples, the averaged value and the error
\* of every field are series of n entries: at sample j the mean of the values
\* present, and sqrt(S)/S * 100 of their sum S (squared: 10000/S).
C8_MeanAndErrorPerSample ==
    pc = "averaged" =>
        \A x \in 1..Len(get_data_keys(operator).val) :
            LET key == get_data_keys(operator).val[x]
                n == Len(arg[1])
            IN  /\ ret[key].ndim = 1
                /\ ret["E_" \o key].ndim = 1
                /\ Len(ret[key].a) = n
                /\ Len(ret["E_" \o key].a) = n
                /\ \A j \in 1..n :
                      /\ IsQuotient(ret[key].a[j], SumAt(j), Len(PresentAt(j)))
                      /\ IsQuotient(ret["E_" \o key].a[j], 10000 * SumAt(j),
                                    SumAt(j) * SumAt(j))

(***************************************************************************)
(* Properties of import_neutron_data (specification SpecImport).           *)
(***************************************************************************)
Ids(table) == {table[k].id : k \in 1..Len(table)}

Ascending(table) ==
    \A k \in 1..(Len(table) - 1) : table[k].t <= table[k + 1].t

\* every row of the result is a row of the file, and none is there twice
RowsOfFile(table) ==
    /\ \A k \in 1..Len(table) : table[k] = arg.table[table[k].id]
    /\ Cardinality(Ids(table)) = Len(table)

WindowGiven == arg.window # <<>>

\* C9 as stated: a valid import returns, sorted, exactly the rows with
\* start <= t < stop.
C9_ValidImportIsHalfOpenSlice ==
    (pc = "returned" /\ WindowGiven /\ ret.validity) =>
        /\ ret.data # <<>>
        /\ Ascending(ret.data)
        /\ RowsOfFile(ret.data)
        /\ Ids(ret.data) =
              {k \in 1..Len(arg.table) :
                  arg.window[1] <= arg.table[k].t
                  /\ arg.table[k].t < arg.window[2]}

\* C9 (amended): a valid import returns, sorted, exactly the rows with
\* start <= t <= stop: a row stamped exactly at stop is included.
C9_ValidImportIsClosedSlice ==
    (pc = "returned" /\ WindowGiven /\ ret.validity) =>
        /\ ret.data # <<>>
        /\ Ascending(ret.data)
        /\ RowsOfFile(ret.data)
        /\ Ids(ret.data) =
              {k \in 1..Len(arg.table) :
                  arg.window[1] <= arg.table[k].t
                  /\ arg.table[k].t <= arg.window[2]}

C9_ValidImportWithRowAtStop ==
    /\ pc = "returned"
    /\ WindowGiven
    /\ ret.validity
    /\ \E k \in 1..Len(ret.data) : ret.data[k].t = arg.window[2]
    /\ \E k \in 1..Len(arg.table) : arg.table[k].t > arg.window[2]
    /\ ~Ascending(arg.table)

Stamps(table) == {table[k].t : k \in 1..Len(table)}

Covers(table, window) ==
    /\ table # <<>>
    /\ SetMin(Stamps(table)) <= window[1]
    /\ SetMax(Stamps(table)) >= window[2]

\* C10: with a window the table does not cover, the import is invalid and
\* returns every row of the file; it is valid only if the table covers the
\* window; an empty table is invalid, with a window or without.
C10_UncoveredWindowIsInvalid ==
    pc = "returned" =>
        /\ (WindowGiven /\ arg.table # <<>> /\ ~Covers(arg.table, arg.window)) =>
              /\ ~ret.validity
              /\ RowsOfFile(ret.data)
              /\ Len(ret.data) = Len(arg.table)
        /\ (WindowGiven /\ ret.validity) => Covers(arg.table, arg.window)
        /\ arg.table = <<>> => (~ret.validity /\ ret.data = <<>>)

C10_UncoveredImportReturned ==
    /\ pc = "returned"
    /\ WindowGiven
    /\ Len(arg.table) >= 2
    /\ SetMin(Stamps(arg.table)) <= arg.window[1]
    /\ SetMax(Stamps(arg.table)) < arg.window[2]
    /\ \E k \in 1..Len(arg.table) : arg.table[k].t >= arg.window[1]
    /\ ~ret.validity

(***************************************************************************)
(* Outlier removal and interpolation.  Floating-point values are carried   *)
(* as exact quotients.                                                     *)
(***************************************************************************)
RAdd(a, b) == Quot(a.n * b.d + b.n * a.d, a.d * b.d)

RSub(a, b) == Quot(a.n * b.d - b.n * a.d, a.d * b.d)

\* a * p / q for whole numbers p and q > 0
RScale(a, p, q) == Quot(a.n * p, a.d * q)

\* a < b as floats compare: false when either is nan
RLess(a, b) == ~IsNaN(a) /\ ~IsNaN(b) /\ a.n * b.d < b.n * a.d

RECURSIVE InsertNum(_, _)
InsertNum(v, sorted) ==
    IF sorted = <<>> THEN <<v>>
    ELSE IF RLess(v, Head(sorted)) THEN <<v>> \o sorted
    ELSE <<Head(sorted)>> \o InsertNum(v, Tail(sorted))

RECURSIVE SortNums(_)
SortNums(vals) ==
    IF vals = <<>> THEN <<>>
    ELSE InsertNum(vals[Len(vals)], SortNums(SubSeq(vals, 1, Len(vals) - 1)))

\* np.percentile(data, q) of a non-empty array, q a whole number: linear
\* interpolation between the order statistics around (n - 1) * q / 100; nan
\* when the array holds a nan
percentile(vals, q) ==
    IF \E k \in 1..Len(vals) : IsNaN(vals[k]) THEN NaN
    ELSE LET s == SortNums(vals)
             pos == (Len(vals) - 1) * q
             k == pos \div 100
             r == pos % 100
         IN  IF r = 0 THEN s[k + 1]
             ELSE RAdd(s[k + 1], RScale(RSub(s[k + 2], s[k + 1]), r, 100))

\* the test of the lower percentile left out
IsOutlier_UpperOnly(v, min_value, max_value) == RLess(max_value, v)

\* np.logical_or(np.greater(data, max_value), np.less(data, min_value))
IsOutlier(v, min_value, max_value) ==
    RLess(max_value, v) \/ RLess(v, min_value)

\* lines 329-339
outliers_to_nans(vals, min_percentile, max_percentile) ==
    LET min_value == percentile(vals, min_percentile)
        max_value == percentile(vals, max_percentile)
    IN  [k \in 1..Len(vals) |->
            IF IsOutlier(vals[k], min_value, max_value) THEN NaN ELSE vals[k]]

\* np.interp(x, xp, fp) at index x, xp the indices of the values that are not
\* nan: the end values outside xp, the chord between the neighbours inside
InterpAt(vals, x) ==
    LET xp == {k \in 1..Len(vals) : ~IsNaN(vals[k])}
        before == {k \in xp : k < x}
        after == {k \in xp : k > x}
    IN  IF before = {} THEN vals[SetMin(after)]
        ELSE IF after = {} THEN vals[SetMax(before)]
        ELSE LET l == SetMax(before)
                 r == SetMin(after)
             IN  RAdd(vals[l], RScale(RSub(vals[r], vals[l]), x - l, r - l))

\* missing values before the first valid sample left missing
interp_nans_NoLeadingFill(vals) ==
    IF \A k \in 1..Len(vals) : IsNaN(vals[k]) THEN Raises("ValueError")
    ELSE Returns([k \in 1..Len(vals) |->
                     IF ~IsNaN(vals[k]) THEN vals[k]
                     ELSE IF \A j \in 1..k : IsNaN(vals[j]) THEN NaN
                     ELSE InterpAt(vals, k)])

\* lines 306-326; [exc, val].  np.interp raises ValueError when xp is empty,
\* that is when the array is empty or all nan.
interp_nans(vals) ==
    IF \A k \in 1..Len(vals) : IsNaN(vals[k]) THEN Raises("ValueError")
    ELSE Returns([k \in 1..Len(vals) |->
                     IF IsNaN(vals[k]) THEN InterpAt(vals, k) ELSE vals[k]])

\* column key of every row of data replaced by vals
WithColumn(data, key, vals) ==
    [k \in 1..Len(data) |-> [data[k] EXCEPT !.cols[key] = vals[k]]]

\* lines 285-303: key after key; [exc, val]
RECURSIVE handle_outliers_interp(_, _, _, _)
handle_outliers_interp(data, keys, min_percentile, max_percentile) ==
    IF keys = <<>> THEN Returns(data)
    ELSE LET key == Head(keys)
             column == [k \in 1..Len(data) |-> data[k].cols[key]]
             filled == interp_nans(outliers_to_nans(column, min_percentile,
                                                    max_percentile))
         IN  IF filled.exc # "none" THEN Raises(filled.exc)
             ELSE handle_outliers_interp(WithColumn(data, key, filled.val),
                                         Tail(keys), min_percentile,
                                         max_percentile)

(***************************************************************************)
(* handle_outliers_interp applied to a series, then to its own result.     *)
(***************************************************************************)
SeriesLevels == {1, 2, 3, 4}

\* line 69 passes 1 and 97
PercentilePairs == {<<1, 97>>, <<0, 100>>, <<25, 75>>}

SeriesTable(vals) == [k \in 1..Len(vals) |-> NMDBRow(3600 * (k - 1), k, vals[k])]

InitOutliers ==
    /\ IdleInputs
    /\ IdleLocals
    /\ operator = "NMDB"
    /\ first_station = TRUE
    /\ all_data = Unbound
    /\ pc = "call"
    /\ \E n \in 1..MaxSeries, pair \in PercentilePairs :
       \E vals \in [1..n -> SeriesLevels] :
          arg = [data |-> SeriesTable(vals), keys |-> <<"counts">>,
                 min_percentile |-> pair[1], max_percentile |-> pair[2]]
    /\ ret = <<>>

\* the first application
ApplyOnce ==
    /\ pc = "call"
    /\ LET once == handle_outliers_interp(arg.data, arg.keys,
                                          arg.min_percentile,
                                          arg.max_percentile)
       IN  /\ ret' = <<once>>
           /\ pc' = IF once.exc = "none" THEN "once" ELSE "raised"
    /\ UNCHANGED <<runInputs, runLocals, err, arg>>

\* the second application, on the result of the first
ApplyAgain ==
    /\ pc = "once"
    /\ LET twice == handle_outliers_interp(ret[1].val, arg.keys,
                                           arg.min_percentile,
                                           arg.max_percentile)
       IN  /\ ret' = Append(ret, twice)
           /\ pc' = IF twice.exc = "none" THEN "twice" ELSE "raised"
    /\ UNCHANGED <<runInputs, runLocals, err, arg>>

NextOutliers == ApplyOnce \/ ApplyAgain

SpecOutliers == InitOutliers /\ [][NextOutliers]_vars

Counts(data) == [k \in 1..Len(data) |-> data[k].cols["counts"]]

\* no value of the series lies outside the percentile values of the series
NoOutlierIn(vals, min_percentile, max_percentile) ==
    \A k \in 1..Len(vals) :
        /\ ~RLess(percentile(vals, max_percentile), vals[k])
        /\ ~RLess(vals[k], percentile(vals, min_percentile))

\* C11 as stated: a second application with the same bounds yields the
\* series that the first application yielded.
C11_SecondPassChangesNothing ==
    pc = "twice" => ret[2] = ret[1]

\* C11: a second application with the same bounds yields the series of the
\* first application exactly when no value of that series lies above its own
\* upper percentile value or below its own lower percentile value.
C11_SecondPassChangesNothingIffNoOutlierLeft ==
    pc = "twice" =>
        (ret[2] = ret[1]
            <=> NoOutlierIn(Counts(ret[1].val), arg.min_percentile,
                            arg.max_percentile))

\* the bounds 1 and 97, a first pass that removed a value, a second that
\* changed nothing
C11_CleanedSeriesIsFixedPoint ==
    /\ pc = "twice"
    /\ arg.min_percentile = 1
    /\ arg.max_percentile = 97
    /\ ret[1].val # arg.data
    /\ NoOutlierIn(Counts(ret[1].val), 1, 97)
    /\ ret[2] = ret[1]

(***************************************************************************)
(* interp_nans on series with missing values.                              *)
(***************************************************************************)
SeriesValues == {NaN, Num(1), Num(4)}

InitInterp ==
    /\ IdleInputs
    /\ IdleLocals
    /\ operator = "NMDB"
    /\ first_station = TRUE
    /\ all_data = Unbound
    /\ pc = "call"
    /\ \E n \in 0..MaxSeries : arg \in [1..n -> SeriesValues]
    /\ ret = <<>>

CallInterp ==
    /\ pc = "call"
    /\ ret' = interp_nans(arg)
    /\ pc' = IF interp_nans(arg).exc = "none" THEN "returned" ELSE "raised"
    /\ UNCHANGED <<runInputs, runLocals, err, arg>>

SpecInterp == InitInterp /\ [][CallInterp]_vars

Valid(vals) == {k \in 1..Len(vals) : ~IsNaN(vals[k])}

Missing(vals) == {k \in 1..Len(vals) : IsNaN(vals[k])}

\* v is the value at x of the chord from (l, vals[l]) to (r, vals[r])
OnChord(v, vals, l, x, r) ==
    /\ ~IsNaN(v)
    /\ v.n * (r - l) * vals[l].d * vals[r].d
         = v.d * (vals[l].n * vals[r].d * (r - x)
                    + vals[r].n * vals[l].d * (x - l))

\* what the series with a valid value becomes
Filled(vals, out) ==
    /\ out.exc = "none"
    /\ Len(out.val) = Len(vals)
    /\ \A k \in Valid(vals) : out.val[k] = vals[k]
    /\ \A k \in Missing(vals) :
          LET before == {j \in Valid(vals) : j < k}
              after == {j \in Valid(vals) : j > k}
          IN  IF before = {} THEN out.val[k] = vals[SetMin(Valid(vals))]
              ELSE IF after = {} THEN out.val[k] = vals[SetMax(Valid(vals))]
              ELSE OnChord(out.val[k], vals, SetMax(before), k, SetMin(after))
    /\ Missing(out.val) = {}

Paths == {"data", "other", "typo", "exit"}

InitPath ==
    /\ IdleInputs
    /\ IdleLocals
    /\ operator = "NMDB"
    /\ first_station = TRUE
    /\ all_data = Unbound
    /\ pc = "call"
    /\ \E path \in Paths, existing \in SUBSET Paths :
          arg = [path |-> path, existing |-> existing]
    /\ ret = ""

\* line 101: ret_path = path
AssignPath ==
    /\ pc = "call"
    /\ ret' = arg.path
    /\ pc' = "while"
    /\ UNCHANGED <<runInputs, runLocals, err, arg>>

\* lines 102-104 and 110: os.path.exists(path), of the argument
TestPath ==
    /\ pc = "while"
    /\ pc' = IF arg.path \in arg.existing THEN "returned" ELSE "input"
    /\ UNCHANGED <<runInputs, runLocals, err, arg, ret>>

\* line 106: ret_path = input(...)
Input ==
    /\ pc = "input"
    /\ \E entered \in Paths : ret' = entered
    /\ pc' = "if"
    /\ UNCHANGED <<runInputs, runLocals, err, arg>>

\* lines 107-108: if path == 'exit': exit(2), of the argument
TestExit ==
    /\ pc = "if"
    /\ pc' = IF arg.path = "exit" THEN "exited" ELSE "while"
    /\ UNCHANGED <<runInputs, runLocals, err, arg, ret>>

NextPath == AssignPath \/ TestPath \/ Input \/ TestExit

SpecPath == InitPath /\ [][NextPath]_vars

\* ret_path holds an answer of the user that differs from the argument
Answered == pc \in {"if", "while", "input", "returned", "exited"} /\ ret # arg.path

\* C13: a path that exists is returned as given; the user is asked again
\* only after an answer that neither exists nor is "exit"; the path returned
\* exists.
C13_PromptsUntilExistingPathOrExit ==
    /\ (pc = "returned" /\ arg.path \in arg.existing) => ret = arg.path
    /\ (pc = "input" /\ Answered) => (ret \notin arg.existing /\ ret # "exit")
    /\ pc = "returned" => ret \in arg.existing

(***************************************************************************)
(* The order of the stages of one station (specification Spec).            *)
(***************************************************************************)
\* the stages up to the corrections follow one another (resample_data may
\* refuse the frequencies and end the run), a station is dropped only by the
\* validity and the length checks, and the flags are applied for COSMOS-UK
\* alone
OrderedUpToCorrections ==
    /\ pc = "import" => pc' = "valid"
    /\ pc = "valid" =>
          pc' = IF valid /\ station_data # <<>> THEN "resample" ELSE "for"
    /\ pc = "resample" => (pc' = "length" \/ (pc' = "Error" /\ err'.line = 60))
    /\ pc = "length" =>
          pc' = IF Len(station_data) * length.den = length.num
                THEN "qc" ELSE "for"
    /\ pc = "qc" =>
          /\ pc' = "correct"
          /\ operator # "COSMOS-UK" => station_data' = station_data

StagesRunInOrderUpToCorrections ==
    [][KnownNetwork => OrderedUpToCorrections]_vars

\* C14: for a station of a known network the stages run in the order import,
\* validity, resample, length check, flags (COSMOS-UK only), corrections,
\* outlier removal; a station found invalid or of the wrong length goes no
\* further.
C14_StagesRunInOrder ==
    [][KnownNetwork =>
          /\ OrderedUpToCorrections
          /\ pc = "correct" => pc' = "outliers"]_vars

====
